---- MODULE Spec2Model ----
\* The expert finder's export pipeline: tools/export.py (environment check,
\* vendor API client, expert/works linkage, output files),
\* utilities/anonymize.py (identity substitution) and the extraction loop of
\* tools/build_graph.py.
\* A JSON record is a function from its keys to its values; a JSON list is a
\* sequence; the data/ directory is a function from file names to contents.
EXTENDS Integers, Sequences, FiniteSets, TLC

VARIABLES
    files,        \* data/: file name -> parsed JSON content
    a_pc,         \* anonymize_data: position in the function
    data,         \* anonymize_data: local `data` (works and outputs, mutated in place)
    expert_data,  \* anonymize_data: local `expert_data` (mutated in place)
    a_i,          \* anonymize_data: number of experts the outer loop has finished
    unique_seen,  \* faker: values fake.unique has handed out in this Faker instance
    identities,   \* history: the synthetic identity drawn for each expert so far
    a_orig,       \* history: the two lists as anonymize_data loaded them
    c_pc,         \* combine_experts_with_works: position in the function
    c_args,       \* combine_experts_with_works: its arguments experts_file, works_file
    c_experts,    \* combine_experts_with_works: local `experts`
    c_works,      \* combine_experts_with_works: local `works`
    works_by_expert, \* combine_experts_with_works: local dict, a set of <<key, list>> items
    r_pc,         \* DWSDataExporter.run: position in the run
    outputs_data, \* get_outputs_and_works: body of the outputs response
    outputs_and_works, \* export_raw_data: the combined list
    expert_ids,   \* get_experts: ids the loop has still to visit
    experts,      \* get_experts: local `experts`
    calls,        \* history: the arguments of the get_expert_profile calls, in order
    lookups,      \* history: per looked-up id, the response and what the call returned
    sources,      \* history: per entry of `experts`, the id whose lookup gave it
    failed,       \* history: some request of the run failed
    env,          \* os.environ after load_dotenv: variable name -> value
    should_anonymize, \* Config.SHOULD_ANONYMIZE
    x_pc,         \* DWSDataExporter: position in __init__ and run
    x_error,      \* DWSDataExporter.__init__: the list the ValueError names
    p_pc,         \* process_and_save_final_data: position in the function
    data_dir,     \* what the path data is: "absent", "dir" or "file"
    experts_dir,  \* what the path data/experts is: "absent", "dir" or "file"
    expert_files, \* data/experts/: file name -> parsed JSON content
    fs0,          \* history: the paths and files as they were before __init__
    g_pc,         \* GraphBuilder.extract_information: position in the function
    documents,    \* extract_information: local `documents`
    g_i,          \* extract_information: the loop counter i
    g_events      \* history: the extract and sleep calls made, in order

anon_vars == <<a_pc, data, expert_data, a_i, unique_seen, identities, a_orig>>

combine_vars == <<c_pc, c_args, c_experts, c_works, works_by_expert>>

run_vars == <<r_pc, outputs_data, outputs_and_works, expert_ids, experts, calls,
              lookups, sources, failed>>

export_vars == <<env, should_anonymize, x_pc, x_error, p_pc, data_dir, experts_dir,
                 expert_files, fs0>>

graph_vars == <<g_pc, documents, g_i, g_events>>

vars == <<files, anon_vars, combine_vars, run_vars, export_vars, graph_vars>>

----------------------------------------------------------------------------
\* Bounds of the model

MaxExperts == 2   \* longest experts list
MaxWorks == 2     \* longest works/outputs list

----------------------------------------------------------------------------
\* Python values

\* None (JSON null), as a value of an id field
None == -1

Has(r, k) == k \in DOMAIN r

\* dict.get(k, default)
Get(r, k, default) == IF Has(r, k) THEN r[k] ELSE default

\* del r[k] for every k of ks that r has
DelKeys(r, ks) == [k \in DOMAIN r \ ks |-> r[k]]

\* r[k] = v
SetKey(r, k, v) == [ a \in DOMAIN r \cup {k} |-> IF a = k THEN v ELSE r[a] ]

\* `sub in attribute` for the substrings and attribute names the code tests
InAttr(sub, attribute) ==
    <<sub, attribute>> \in
        { <<"FirstName", "FirstName">>, <<"LastName", "LastName">>,
          <<"Email", "Email">>, <<"Phone", "Phone">>, <<"Mobile", "Mobile">>,
          <<"Id", "Id">>, <<"Id", "ExpertId">>, <<"ExpertId", "ExpertId">> }

\* s.replace(old, new) where old is the whole of s (the only use in the code);
\* "".replace("", new) is new as well
StrReplace(s, old, new) == IF old = s THEN new ELSE s

\* str.lower() on the first and last names faker is modelled to return
Lower(s) ==
    CASE s = "Ann" -> "ann"
      [] s = "Bob" -> "bob"
      [] s = "Lee" -> "lee"
      [] s = "Ray" -> "ray"
      [] OTHER -> s

SeqsUpTo(S, n) == UNION { [1..k -> S] : k \in 0..n }

Range(s) == { s[n] : n \in DOMAIN s }

\* a directory without files
NoFiles == [ f \in {} |-> <<>> ]

----------------------------------------------------------------------------
\* utilities/anonymize.py

remove_list ==
    { "EncodedTitle", "ClickURL", "externalJobs", "Photo", "Content",
      "internalProjects", "Recomendations", "ActivityLinks", "Username" }
name_list == { "Title", "FirstName", "LastName" }
works_list == { "Owner" }
contact_list == { "Email", "Phone", "Mobile" }
id_list == { "Id" }
works_id_list == { "ExpertId" }

remove_data(processed_record) == DelKeys(processed_record, remove_list)

anonymize_name(processed_record, list, name, last_name, full_name) ==
    [ attribute \in DOMAIN processed_record |->
        IF attribute \notin list THEN processed_record[attribute]
        ELSE IF InAttr("FirstName", attribute)
             THEN StrReplace(processed_record[attribute], processed_record[attribute], name)
        ELSE IF InAttr("LastName", attribute)
             THEN StrReplace(processed_record[attribute], processed_record[attribute], last_name)
        ELSE StrReplace(processed_record[attribute], processed_record[attribute], full_name) ]

anonymize_contacts_unconditional(processed_record, email, phone, mobile) ==
    [ attribute \in DOMAIN processed_record \cup contact_list |->
        IF attribute \notin contact_list THEN processed_record[attribute]
        ELSE IF InAttr("Email", attribute) THEN email
        ELSE IF InAttr("Phone", attribute) THEN phone
        ELSE mobile ]

anonymize_contacts(processed_record, email, phone, mobile) ==
    [ attribute \in DOMAIN processed_record |->
        IF attribute \notin contact_list THEN processed_record[attribute]
        ELSE IF InAttr("Email", attribute)
             THEN StrReplace(processed_record[attribute], processed_record[attribute], email)
        ELSE IF InAttr("Phone", attribute)
             THEN StrReplace(processed_record[attribute], processed_record[attribute], phone)
        ELSE IF InAttr("Mobile", attribute)
             THEN StrReplace(processed_record[attribute], processed_record[attribute], mobile)
        ELSE processed_record[attribute] ]

anonymize_id_exact(processed_record, list, fake_id) ==
    [ attribute \in DOMAIN processed_record |->
        IF attribute \in list /\ attribute = "Id" THEN fake_id
        ELSE processed_record[attribute] ]

anonymize_id(processed_record, list, fake_id) ==
    [ attribute \in DOMAIN processed_record |->
        IF attribute \notin list THEN processed_record[attribute]
        ELSE IF InAttr("Id", attribute) THEN fake_id
        ELSE IF InAttr("ExpertId", attribute) THEN fake_id
        ELSE processed_record[attribute] ]

\* fake.unique.random_int(min=111111, max=999999): the values it can return
\* when `seen` were returned before (none left: UniquenessException); three
\* values stand for the range
FakeIds == { 2, 3, 4 }

random_int_repeating(seen) == FakeIds

unique_random_int(seen) == FakeIds \ seen

\* what fake.first_name(), fake.last_name() and the two fake.phone_number()
\* calls of one iteration can return
FakerDraws ==
    { [first |-> "Ann", last |-> "Lee", phone |-> "555-0100", mobile |-> "555-0101"],
      [first |-> "Bob", last |-> "Ray", phone |-> "555-0101", mobile |-> "555-0100"] }

\* lines 83-89: the synthetic identity of one iteration
Identity(fake_id, d) ==
    [ fake_id |-> fake_id,
      fake_name |-> d.first,
      fake_last_name |-> d.last,
      fake_full_name |-> d.first \o " " \o d.last,
      fake_email |-> Lower(d.first) \o "." \o Lower(d.last) \o "@roche.com",
      fake_phone |-> d.phone,
      fake_mobile |-> d.mobile ]

\* lines 93-98: the body of `if original_expert_id == record["ExpertId"]`
AnonymizeWork(record, id) ==
    anonymize_id(
        anonymize_contacts(
            anonymize_name(remove_data(record), works_list,
                           id.fake_name, id.fake_last_name, id.fake_full_name),
            id.fake_email, id.fake_phone, id.fake_mobile),
        works_id_list, id.fake_id)

\* lines 90, 99-103: what one iteration does to its expert record
AnonymizeExpert(expert_record, id) ==
    anonymize_id(
        anonymize_contacts(
            anonymize_name(remove_data(expert_record), name_list,
                           id.fake_name, id.fake_last_name, id.fake_full_name),
            id.fake_email, id.fake_phone, id.fake_mobile),
        id_list, id.fake_id)

\* lines 91-98: the inner loop; record["ExpertId"] raises KeyError at the first
\* record without the key, the records before it are already rewritten
FirstKeyError(d) ==
    IF \A n \in DOMAIN d : Has(d[n], "ExpertId") THEN 0
    ELSE CHOOSE n \in DOMAIN d :
            /\ ~Has(d[n], "ExpertId")
            /\ \A m \in 1..(n-1) : Has(d[m], "ExpertId")

ScanWorks(d, original_expert_id, id) ==
    LET stop == FirstKeyError(d) IN
    [ n \in DOMAIN d |->
        IF stop # 0 /\ n >= stop THEN d[n]
        ELSE IF original_expert_id = d[n]["ExpertId"] THEN AnonymizeWork(d[n], id)
        ELSE d[n] ]

\* lines 79-80: json.load of the two input files
AnonLoad ==
    /\ a_pc = "load"
    /\ data' = files["original_data.json"]
    /\ expert_data' = files["experts.json"]
    /\ a_orig' = [works |-> files["original_data.json"], experts |-> files["experts.json"]]
    /\ a_pc' = "loop"
    /\ UNCHANGED <<files, a_i, unique_seen, identities, combine_vars, run_vars,
                   export_vars, graph_vars>>

\* lines 81-103: one iteration of `for expert_record in expert_data`;
\* fake.unique raises UniquenessException when the range is used up
AnonIteration ==
    /\ a_pc = "loop"
    /\ a_i < Len(expert_data)
    /\ IF unique_random_int(unique_seen) = {}
       THEN /\ a_pc' = "raised"
            /\ UNCHANGED <<data, expert_data, a_i, unique_seen, identities>>
       ELSE \E fake_id \in unique_random_int(unique_seen), d \in FakerDraws :
         LET e == a_i + 1
             id == Identity(fake_id, d)
             original_expert_id == expert_data[e]["Id"]
         IN
         /\ unique_seen' = unique_seen \cup {fake_id}
         /\ identities' = Append(identities, id)
         /\ data' = ScanWorks(data, original_expert_id, id)
         /\ IF FirstKeyError(data) # 0
            THEN /\ expert_data' = [expert_data EXCEPT ![e] = remove_data(@)]
                 /\ a_pc' = "raised"
                 /\ a_i' = a_i
            ELSE /\ expert_data' = [expert_data EXCEPT ![e] = AnonymizeExpert(@, id)]
                 /\ a_pc' = "loop"
                 /\ a_i' = a_i + 1
    /\ UNCHANGED <<files, a_orig, combine_vars, run_vars,
                   export_vars, graph_vars>>

\* lines 105-110: dump both lists
AnonWrite ==
    /\ a_pc = "loop"
    /\ a_i = Len(expert_data)
    /\ files' = [ f \in DOMAIN files \cup {"works_cleaned.json", "experts_cleaned.json"} |->
                    IF f = "works_cleaned.json" THEN data
                    ELSE IF f = "experts_cleaned.json" THEN expert_data
                    ELSE files[f] ]
    /\ a_pc' = "done"
    /\ UNCHANGED <<data, expert_data, a_i, unique_seen, identities, a_orig,
                   combine_vars, run_vars,
                   export_vars, graph_vars>>

\* the input files anonymize_data is run on
\* original ids, two of them inside the synthetic range
OrigIds == { 1, 2, 3 }

ExpertFull(id) ==
    [ Id |-> id, Title |-> "Eve Roe", FirstName |-> "Eve", LastName |-> "Roe",
      Email |-> "eve.roe@roche.com", Phone |-> "061-1", Mobile |-> "079-1",
      Username |-> "roee", Photo |-> "jpeg", Department |-> "Oncology" ]

ExpertBare(id) == [ Id |-> id, Department |-> "Oncology" ]

WorkFull(id) ==
    [ ExpertId |-> id, Owner |-> "Eve Roe", Email |-> "eve.roe@roche.com",
      Phone |-> "061-1", Mobile |-> "079-1", Content |-> "text",
      ClickURL |-> "url", Name |-> "Paper" ]

WorkBare(id) == [ ExpertId |-> id, Name |-> "Note" ]

WorkNoExpertId == [ Owner |-> "Eve Roe", Name |-> "Memo" ]

AnonExperts == { ExpertFull(id) : id \in OrigIds } \cup { ExpertBare(1) }

AnonWorks == { WorkFull(id) : id \in OrigIds } \cup { WorkBare(1), WorkNoExpertId }

----------------------------------------------------------------------------
\* tools/export.py, DataProcessor.combine_experts_with_works

\* `if expert_id:` on an id value
Truthy(v) == v # None /\ v # 0

\* a Python dict with id keys, as a set of <<key, value>> items
DictKeys(d) == { it[1] : it \in d }

DictGet(d, k, default) ==
    IF k \in DictKeys(d) THEN (CHOOSE it \in d : it[1] = k)[2] ELSE default

\* d.setdefault(k, []).append(x)
SetDefaultAppend(d, k, x) ==
    { it \in d : it[1] # k } \cup { <<k, Append(DictGet(d, k, <<>>), x)>> }

\* lines 186-190 without the `if expert_id:` test
RECURSIVE BuildIndexUnguarded(_, _)
BuildIndexUnguarded(works, acc) ==
    IF works = <<>> THEN acc
    ELSE LET work == Head(works)
             expert_id == Get(work, "ExpertId", None)
         IN BuildIndexUnguarded(Tail(works), SetDefaultAppend(acc, expert_id, work))

\* lines 186-190: the loop that fills works_by_expert
RECURSIVE BuildIndex(_, _)
BuildIndex(works, acc) ==
    IF works = <<>> THEN acc
    ELSE LET work == Head(works)
             expert_id == Get(work, "ExpertId", None)
         IN BuildIndex(Tail(works),
                       IF Truthy(expert_id) THEN SetDefaultAppend(acc, expert_id, work)
                       ELSE acc)

\* lines 193-195 keeping only the experts the index knows
AttachWorksLinkedOnly(es, index) ==
    LET linked == SelectSeq(es, LAMBDA expert : Get(expert, "Id", None) \in DictKeys(index))
    IN [ j \in DOMAIN linked |->
           SetKey(linked[j], "works", DictGet(index, Get(linked[j], "Id", None), <<>>)) ]

\* lines 193-195: the loop that sets expert["works"]
AttachWorks(es, index) ==
    [ j \in DOMAIN es |->
        SetKey(es[j], "works", DictGet(index, Get(es[j], "Id", None), <<>>)) ]

\* lines 182-183: load_json of both files; a missing file raises
CombineLoad ==
    /\ c_pc = "load"
    /\ IF c_args.experts_file \in DOMAIN files /\ c_args.works_file \in DOMAIN files
       THEN /\ c_experts' = files[c_args.experts_file]
            /\ c_works' = files[c_args.works_file]
            /\ c_pc' = "index"
       ELSE /\ c_pc' = "raised"
            /\ UNCHANGED <<c_experts, c_works>>
    /\ UNCHANGED <<files, c_args, works_by_expert, anon_vars, run_vars,
                   export_vars, graph_vars>>

\* lines 186-190
CombineIndex ==
    /\ c_pc = "index"
    /\ works_by_expert' = BuildIndex(c_works, {})
    /\ c_pc' = "attach"
    /\ UNCHANGED <<files, c_args, c_experts, c_works, anon_vars, run_vars,
                   export_vars, graph_vars>>

\* lines 193-197: attach the lists and return `experts`
CombineAttach ==
    /\ c_pc = "attach"
    /\ c_experts' = AttachWorks(c_experts, works_by_expert)
    /\ c_pc' = "done"
    /\ UNCHANGED <<files, c_args, c_works, works_by_expert, anon_vars, run_vars,
                   export_vars, graph_vars>>

----------------------------------------------------------------------------
\* tools/export.py, DWSAPIClient and DWSDataExporter.export_raw_data

\* A response of the vendor API as session.get sees it: a transport failure,
\* an HTTP error status, a body that is not JSON, or a JSON body
FailureKinds == { "transport", "status", "json" }

Failures == { [kind |-> k] : k \in FailureKinds }

OkResponse(body) == [kind |-> "ok", body |-> body]

\* a JSON body without the RecordList key
NoListBody == [Message |-> "no records"]

\* lines 63-78: session.get, raise_for_status and response.json(); both
\* except clauses log and re-raise
make_request(response) ==
    IF response.kind = "ok"
    THEN [raised |-> FALSE, value |-> response.body]
    ELSE [raised |-> TRUE, value |-> NoListBody]

\* an Optional[Dict]: <<>> is None, <<r>> is the record r
\* `if expert_profile:` is false for None and for an empty dict
TruthyProfile(p) == p # <<>> /\ DOMAIN p[1] # {}

\* lines 97-113 returning the last record of RecordList
get_expert_profile_last(response) ==
    LET r == make_request(response) IN
    IF r.raised THEN <<>>
    ELSE LET records == Get(r.value, "RecordList", <<>>) IN
         IF records # <<>> THEN << records[Len(records)] >> ELSE <<>>

\* lines 97-113: every exception of the request is caught and None returned
get_expert_profile(response) ==
    LET r == make_request(response) IN
    IF r.raised THEN <<>>
    ELSE LET records == Get(r.value, "RecordList", <<>>) IN
         IF records # <<>> THEN << records[1] >> ELSE <<>>

\* lines 118-122 without the `is not None` filter
ExpertIdsUnfiltered(items) == { Get(item, "ExpertId", None) : item \in Range(items) }

\* lines 118-122: the set comprehension
ExpertIds(items) ==
    { Get(item, "ExpertId", None) :
        item \in { it \in Range(items) : Get(it, "ExpertId", None) # None } }

\* str(type(item)).title() of a dict, and `sub in` it
TypeTitle(item) == "<Class 'Dict'>"

InTitle(sub, title) ==
    <<sub, title>> \in { <<"Class", "<Class 'Dict'>">>, <<"Dict", "<Class 'Dict'>">> }

\* what the three endpoints can answer
MaxFetched == 2     \* longest RecordList of the works endpoint
MaxOutputs == 1     \* longest RecordList of the outputs endpoint

\* ExpertId values of fetched records: null, a falsy id and another id
FetchIds == { None, 0, 1 }

FetchRecs(name) ==
    { [ ExpertId |-> id, Name |-> name ] : id \in FetchIds } \cup { [ Name |-> name ] }

ListResponses(name, n) ==
    Failures \cup { OkResponse(NoListBody) }
        \cup { OkResponse([RecordList |-> l]) : l \in SeqsUpTo(FetchRecs(name), n) }

EmptyRecord == [ k \in {} |-> "" ]

ProfileRec(expert_id, title) == [ Id |-> expert_id, Title |-> title ]

\* RecordLists of the profile endpoint: empty, one record, a record without
\* Title, two records, and lists that start with an empty object
ProfileLists(expert_id) ==
    { <<>>,
      << EmptyRecord >>,
      << ProfileRec(expert_id, "Eve Roe") >>,
      << [ Id |-> expert_id ] >>,
      << ProfileRec(expert_id, "Eve Roe"), ProfileRec(expert_id, "Adam Poe") >>,
      << EmptyRecord, ProfileRec(expert_id, "Eve Roe") >> }

ProfileResponses(expert_id) ==
    Failures \cup { OkResponse(NoListBody) }
        \cup { OkResponse([RecordList |-> l]) : l \in ProfileLists(expert_id) }

\* line 87: the outputs request of get_outputs_and_works, answered with at
\* most n records
RequestOutputsUpTo(n) ==
    /\ r_pc = "request_outputs"
    /\ \E response \in ListResponses("Output", n) :
         LET r == make_request(response) IN
         IF r.raised
         THEN /\ r_pc' = "raised"
              /\ failed' = TRUE
              /\ UNCHANGED outputs_data
         ELSE /\ r_pc' = "request_works"
              /\ outputs_data' = r.value
              /\ UNCHANGED failed
    /\ UNCHANGED <<files, outputs_and_works, expert_ids, experts, calls, lookups,
                   sources, anon_vars, combine_vars,
                   export_vars, graph_vars>>

RequestOutputs == RequestOutputsUpTo(MaxOutputs)

\* lines 88-95: the works request, answered with at most n records, then
\* works_records + outputs_records
RequestWorksUpTo(n) ==
    /\ r_pc = "request_works"
    /\ \E response \in ListResponses("Work", n) :
         LET r == make_request(response) IN
         IF r.raised
         THEN /\ r_pc' = "raised"
              /\ failed' = TRUE
              /\ UNCHANGED outputs_and_works
         ELSE /\ r_pc' = "get_experts"
              /\ outputs_and_works' =
                     Get(r.value, "RecordList", <<>>) \o Get(outputs_data, "RecordList", <<>>)
              /\ UNCHANGED failed
    /\ UNCHANGED <<files, outputs_data, expert_ids, experts, calls, lookups,
                   sources, anon_vars, combine_vars,
                   export_vars, graph_vars>>

RequestWorks == RequestWorksUpTo(MaxFetched)

\* lines 118-126: collect the ids, start with no experts
CollectExpertIds ==
    /\ r_pc = "get_experts"
    /\ expert_ids' = ExpertIds(outputs_and_works)
    /\ experts' = <<>>
    /\ r_pc' = "profiles"
    /\ UNCHANGED <<files, outputs_data, outputs_and_works, calls, lookups, sources,
                   failed, anon_vars, combine_vars,
                   export_vars, graph_vars>>

\* lines 127-130: one iteration of `for expert_id in expert_ids`, in the
\* set's iteration order
FetchProfile ==
    /\ r_pc = "profiles"
    /\ \E expert_id \in expert_ids :
         \E response \in ProfileResponses(expert_id) :
           LET expert_profile == get_expert_profile(response) IN
           /\ expert_ids' = expert_ids \ {expert_id}
           /\ calls' = Append(calls, expert_id)
           /\ lookups' = lookups \cup
                  { [id |-> expert_id, response |-> response, returned |-> expert_profile] }
           /\ failed' = (failed \/ response.kind # "ok")
           /\ IF TruthyProfile(expert_profile)
              THEN /\ experts' = Append(experts, expert_profile[1])
                   /\ sources' = Append(sources, expert_id)
              ELSE UNCHANGED <<experts, sources>>
    /\ UNCHANGED <<files, r_pc, outputs_data, outputs_and_works, anon_vars, combine_vars,
                   export_vars, graph_vars>>

\* lines 132-133: get_experts returns
ReturnExperts ==
    /\ r_pc = "profiles"
    /\ expert_ids = {}
    /\ r_pc' = "save_initial"
    /\ UNCHANGED <<files, outputs_data, outputs_and_works, expert_ids, experts, calls,
                   lookups, sources, failed, anon_vars, combine_vars,
                   export_vars, graph_vars>>

\* lines 168-178: save_initial_data
SaveInitialData ==
    /\ r_pc = "save_initial"
    /\ LET outputs == SelectSeq(outputs_and_works,
                                LAMBDA item : InTitle("Output", TypeTitle(item)))
           works == SelectSeq(outputs_and_works,
                              LAMBDA item : InTitle("Work", TypeTitle(item)))
       IN files' = SetKey(SetKey(SetKey(SetKey(files,
                       "outputs.json", outputs),
                       "works.json", works),
                       "original_data.json", outputs_and_works),
                       "experts.json", experts)
    /\ r_pc' = "raw_exported"
    /\ UNCHANGED <<outputs_data, outputs_and_works, expert_ids, experts, calls,
                   lookups, sources, failed, anon_vars, combine_vars,
                   export_vars, graph_vars>>

----------------------------------------------------------------------------
\* tools/export.py, Config.validate_environment, DataProcessor.ensure_directories,
\* DataProcessor.save_individual_expert_files and DWSDataExporter

required_vars == << "DWS_API_KEY", "DWS_API_ID" >>

\* os.getenv(var): None (the empty sequence) when the variable is not set
getenv(e, var) == IF var \in DOMAIN e THEN << e[var] >> ELSE <<>>

MissingVarsUnsetOnly(e) == SelectSeq(required_vars, LAMBDA var : getenv(e, var) = <<>>)

\* line 45: [var for var in required_vars if not os.getenv(var)]
MissingVars(e) ==
    SelectSeq(required_vars, LAMBDA var : getenv(e, var) = <<>> \/ getenv(e, var) = << "" >>)

KeepExpertsDir(content) == content

\* lines 146-148: rmtree of an existing data/experts, then mkdir: what the
\* directory holds afterwards
CleanExpertsDir(content) == NoFiles

\* str(expert_id) inside the f-string
PyStr(v) == IF v = None THEN "None" ELSE ToString(v)

\* title.replace(" ", "_") on the titles that occur
ReplaceSpaces(title) ==
    CASE title = "Eve Roe" -> "Eve_Roe"
      [] title = "Adam Poe" -> "Adam_Poe"
      [] title = "Old Hand" -> "Old_Hand"
      [] title = "Ann Lee" -> "Ann_Lee"
      [] title = "Bob Ray" -> "Bob_Ray"
      [] OTHER -> title

ExpertFileNameTitleOnly(expert) ==
    LET replaced == ReplaceSpaces(Get(expert, "Title", "")) IN
    (IF replaced = "" THEN "untitled" ELSE replaced) \o ".json"

\* lines 202-205: the file name of one expert
ExpertFileName(expert) ==
    LET expert_id == IF Has(expert, "Id") THEN PyStr(expert["Id"]) ELSE "unknown"
        replaced == ReplaceSpaces(Get(expert, "Title", ""))
        expert_title == IF replaced = "" THEN "untitled" ELSE replaced
    IN expert_id \o "_" \o expert_title \o ".json"

\* lines 201-208: the loop; a later expert with the same file name overwrites
RECURSIVE WriteExpertFiles(_, _)
WriteExpertFiles(es, dir) ==
    IF es = <<>> THEN dir
    ELSE WriteExpertFiles(Tail(es), SetKey(dir, ExpertFileName(Head(es)), Head(es)))

CombineArgsRaw(anonymize) ==
    [experts_file |-> "experts.json", works_file |-> "works.json"]

\* lines 256-263: the two files combine is given
CombineArgs(anonymize) ==
    IF anonymize
    THEN [experts_file |-> "experts_cleaned.json", works_file |-> "works_cleaned.json"]
    ELSE [experts_file |-> "experts.json", works_file |-> "works.json"]

\* lines 230-235: DWSDataExporter.__init__; validate_environment comes first,
\* the client and the processor it then builds send nothing and write nothing
Construct ==
    /\ x_pc = "construct"
    /\ IF MissingVars(env) # <<>>
       THEN /\ x_pc' = "init_raised"
            /\ x_error' = MissingVars(env)
       ELSE /\ x_pc' = "ensure_directories"
            /\ UNCHANGED x_error
    /\ UNCHANGED <<files, env, should_anonymize, p_pc, data_dir, experts_dir,
                   expert_files, fs0, anon_vars, combine_vars, run_vars, graph_vars>>

\* lines 142-148 and 288-291: ensure_directories, then run enters
\* export_raw_data; mkdir raises when data is a file, rmtree when data/experts
\* is one, and run's except clause re-raises
EnsureDirectories ==
    /\ x_pc = "ensure_directories"
    /\ IF data_dir = "file"
       THEN /\ x_pc' = "raised"
            /\ UNCHANGED <<data_dir, experts_dir, expert_files, r_pc>>
       ELSE IF experts_dir = "file"
       THEN /\ x_pc' = "raised"
            /\ data_dir' = "dir"
            /\ UNCHANGED <<experts_dir, expert_files, r_pc>>
       ELSE /\ data_dir' = "dir"
            /\ experts_dir' = "dir"
            /\ expert_files' = CleanExpertsDir(expert_files)
            /\ x_pc' = "running"
            /\ r_pc' = "request_outputs"
    /\ UNCHANGED <<files, env, should_anonymize, x_error, p_pc, fs0,
                   outputs_data, outputs_and_works, expert_ids, experts, calls,
                   lookups, sources, failed, anon_vars, combine_vars, graph_vars>>

\* lines 251-263: process_and_save_final_data begins (inside run: once
\* export_raw_data has returned); it calls anonymize_data or goes straight to
\* combine_experts_with_works
ProcessStart ==
    /\ p_pc = "start"
    /\ x_pc \in {"idle", "running"}
    /\ x_pc = "running" => r_pc = "raw_exported"
    /\ IF should_anonymize
       THEN /\ p_pc' = "anonymize"
            /\ a_pc' = "load"
            /\ UNCHANGED combine_vars
       ELSE /\ p_pc' = "combine"
            /\ c_pc' = "load"
            /\ c_args' = CombineArgs(should_anonymize)
            /\ UNCHANGED <<a_pc, c_experts, c_works, works_by_expert>>
    /\ UNCHANGED <<files, data, expert_data, a_i, unique_seen, identities, a_orig,
                   env, should_anonymize, x_pc, x_error, data_dir, experts_dir,
                   expert_files, fs0, run_vars, graph_vars>>

\* lines 258-268: anonymize_data has returned, combine is called on the
\* cleaned files
AnonymizeReturned ==
    /\ p_pc = "anonymize"
    /\ a_pc = "done"
    /\ p_pc' = "combine"
    /\ c_pc' = "load"
    /\ c_args' = CombineArgs(should_anonymize)
    /\ UNCHANGED <<files, c_experts, c_works, works_by_expert, anon_vars,
                   env, should_anonymize, x_pc, x_error, data_dir, experts_dir,
                   expert_files, fs0, run_vars, graph_vars>>

\* lines 271-274: save_json of the combined experts
SaveCombined ==
    /\ p_pc = "combine"
    /\ c_pc = "done"
    /\ files' = SetKey(files, "experts_with_works.json", c_experts)
    /\ p_pc' = "save_individual"
    /\ UNCHANGED <<env, should_anonymize, x_pc, x_error, data_dir, experts_dir,
                   expert_files, fs0, anon_vars, combine_vars, run_vars, graph_vars>>

\* lines 277-282 and 199-224: save_individual_expert_files, then
\* check_experts_without_works, which only logs
SaveIndividualExpertFiles ==
    /\ p_pc = "save_individual"
    /\ expert_files' = WriteExpertFiles(c_experts, expert_files)
    /\ p_pc' = "done"
    /\ UNCHANGED <<files, env, should_anonymize, x_pc, x_error, data_dir, experts_dir,
                   fs0, anon_vars, combine_vars, run_vars, graph_vars>>

\* line 296: run logs success and returns
RunReturn ==
    /\ x_pc = "running"
    /\ p_pc = "done"
    /\ x_pc' = "done"
    /\ UNCHANGED <<files, env, should_anonymize, x_error, p_pc, data_dir, experts_dir,
                   expert_files, fs0, anon_vars, combine_vars, run_vars, graph_vars>>

\* lines 298-300: an exception of a step arrives in run's except clause, which
\* logs it and re-raises
RunExcept ==
    /\ x_pc = "running"
    /\ r_pc = "raised" \/ a_pc = "raised" \/ c_pc = "raised"
    /\ x_pc' = "raised"
    /\ UNCHANGED <<files, env, should_anonymize, x_error, p_pc, data_dir, experts_dir,
                   expert_files, fs0, anon_vars, combine_vars, run_vars, graph_vars>>

----------------------------------------------------------------------------
\* tools/build_graph.py, GraphBuilder.extract_information

MaxDocs == 3   \* most documents _load_json_documents returns

\* the documents JSONReader can hand back
Docs == { "doc_a", "doc_b" }

\* lines 150, 115-120, 139-141: _get_s3_docs fails, the directory is missing,
\* it has no JSON file, or reader.load_data fails on a file
LoadFailures == { "S3BasedDocs", "FileNotFoundError", "ValueError", "load_data" }

SleepAlways(i, n) == TRUE

\* line 166: `if i < len(documents)`
SleepDue(i, n) == i < n

\* lines 150-152: _get_s3_docs, the checkpoint and _load_json_documents, which
\* raises or returns the documents of all files in glob order
LoadDocuments ==
    /\ g_pc = "load"
    /\ \/ \E failure \in LoadFailures :
            /\ g_pc' = "raised"
            /\ UNCHANGED documents
       \/ \E docs \in SeqsUpTo(Docs, MaxDocs) :
            /\ documents' = docs
            /\ g_pc' = "extract"
    /\ UNCHANGED <<files, g_i, g_events, anon_vars, combine_vars, run_vars, export_vars>>

\* lines 156-166: one graph_index.extract([document], ...) call of the loop;
\* it returns or raises, and after it returns the loop sleeps or goes on
ExtractDocument ==
    /\ g_pc = "extract"
    /\ g_i < Len(documents)
    /\ LET i == g_i + 1 IN
       /\ g_events' = Append(g_events, [op |-> "extract", document |-> documents[i]])
       /\ \/ /\ g_pc' = "raised"
             /\ UNCHANGED g_i
          \/ /\ g_i' = i
             /\ g_pc' = IF SleepDue(i, Len(documents)) THEN "sleep" ELSE "extract"
    /\ UNCHANGED <<files, documents, anon_vars, combine_vars, run_vars, export_vars>>

\* lines 167-168: time.sleep(SLEEP_DURATION), the loop then takes the next document
Sleep ==
    /\ g_pc = "sleep"
    /\ g_events' = Append(g_events, [op |-> "sleep", document |-> "none"])
    /\ g_pc' = "extract"
    /\ UNCHANGED <<files, documents, g_i, anon_vars, combine_vars, run_vars, export_vars>>

\* line 170: the loop is over, extract_information logs and returns
ExtractReturn ==
    /\ g_pc = "extract"
    /\ g_i = Len(documents)
    /\ g_pc' = "done"
    /\ UNCHANGED <<files, documents, g_i, g_events, anon_vars, combine_vars, run_vars,
                   export_vars>>

----------------------------------------------------------------------------
\* The parts of the state a specification does not run

AnonIdle ==
    /\ a_pc = "idle"
    /\ data = <<>>
    /\ expert_data = <<>>
    /\ a_i = 0
    /\ unique_seen = {}
    /\ identities = <<>>
    /\ a_orig = [works |-> <<>>, experts |-> <<>>]

CombineIdle ==
    /\ c_pc = "idle"
    /\ c_args = [experts_file |-> "experts.json", works_file |-> "works.json"]
    /\ c_experts = <<>>
    /\ c_works = <<>>
    /\ works_by_expert = {}

RunIdle ==
    /\ r_pc = "idle"
    /\ outputs_data = <<>>
    /\ outputs_and_works = <<>>
    /\ expert_ids = {}
    /\ experts = <<>>
    /\ calls = <<>>
    /\ lookups = {}
    /\ sources = <<>>
    /\ failed = FALSE

\* a data/ directory that exists, with an empty data/experts, and a valid
\* environment: what the functions below run() are given when run alone
ExportIdle ==
    /\ env = [ v \in {"DWS_API_KEY", "DWS_API_ID"} |-> "secret" ]
    /\ should_anonymize = TRUE
    /\ x_pc = "idle"
    /\ x_error = <<>>
    /\ p_pc = "idle"
    /\ data_dir = "dir"
    /\ experts_dir = "dir"
    /\ expert_files = NoFiles
    /\ fs0 = <<>>

GraphIdle ==
    /\ g_pc = "idle"
    /\ documents = <<>>
    /\ g_i = 0
    /\ g_events = <<>>

----------------------------------------------------------------------------
\* anonymize_data run on any two input files

\* experts.json holds one profile per expert: the Ids are pairwise distinct
DistinctIds(es) == \A i, j \in DOMAIN es : i # j => es[i]["Id"] # es[j]["Id"]

InitAnon ==
    /\ \E es \in SeqsUpTo(AnonExperts, MaxExperts), ws \in SeqsUpTo(AnonWorks, MaxWorks) :
         /\ DistinctIds(es)
         /\ files = [ f \in {"original_data.json", "experts.json"} |->
                     IF f = "experts.json" THEN es ELSE ws ]
    /\ a_pc = "load"
    /\ data = <<>>
    /\ expert_data = <<>>
    /\ a_i = 0
    /\ unique_seen = {}
    /\ identities = <<>>
    /\ a_orig = [works |-> <<>>, experts |-> <<>>]
    /\ CombineIdle
    /\ RunIdle
    /\ ExportIdle
    /\ GraphIdle

NextAnon == AnonLoad \/ AnonIteration \/ AnonWrite

SpecAnon == InitAnon /\ [][NextAnon]_vars

----------------------------------------------------------------------------
\* combine_experts_with_works run on any two input files

MaxLinkId == 2       \* ids of the linkage inputs are 0..MaxLinkId
MaxLinkExperts == 2  \* longest experts list given to combine
MaxLinkWorks == 3    \* longest works list given to combine

LinkIds == 0..MaxLinkId

LinkExperts ==
    { [ Id |-> id, Title |-> "Eve Roe" ] : id \in LinkIds } \cup { [ Title |-> "Eve Roe" ] }

LinkWorks ==
    { [ ExpertId |-> id, Name |-> "Paper" ] : id \in LinkIds }
        \cup { [ ExpertId |-> 1, Name |-> "Note" ], [ Name |-> "Memo" ] }

InitCombine ==
    /\ \E es \in SeqsUpTo(LinkExperts, MaxLinkExperts),
          ws \in SeqsUpTo(LinkWorks, MaxLinkWorks),
          present \in { {"experts.json", "works.json"}, {"experts.json"} } :
         files = [ f \in present |-> IF f = "experts.json" THEN es ELSE ws ]
    /\ c_pc = "load"
    /\ c_args = [experts_file |-> "experts.json", works_file |-> "works.json"]
    /\ c_experts = <<>>
    /\ c_works = <<>>
    /\ works_by_expert = {}
    /\ AnonIdle
    /\ RunIdle
    /\ ExportIdle
    /\ GraphIdle

NextCombine == CombineLoad \/ CombineIndex \/ CombineAttach

SpecCombine == InitCombine /\ [][NextCombine]_vars

----------------------------------------------------------------------------
\* export_raw_data run against any answers of the vendor API

InitRun ==
    /\ files = [ f \in {} |-> <<>> ]
    /\ r_pc = "request_outputs"
    /\ outputs_data = NoListBody
    /\ outputs_and_works = <<>>
    /\ expert_ids = {}
    /\ experts = <<>>
    /\ calls = <<>>
    /\ lookups = {}
    /\ sources = <<>>
    /\ failed = FALSE
    /\ AnonIdle
    /\ CombineIdle
    /\ ExportIdle
    /\ GraphIdle

NextRun ==
    \/ RequestOutputs
    \/ RequestWorks
    \/ CollectExpertIds
    \/ FetchProfile
    \/ ReturnExperts
    \/ SaveInitialData

SpecRun == InitRun /\ [][NextRun]_vars

----------------------------------------------------------------------------
\* process_and_save_final_data run on any two input files, with the
\* SHOULD_ANONYMIZE = True of Config

InitProcess ==
    /\ \E es \in SeqsUpTo(AnonExperts, MaxExperts), ws \in SeqsUpTo(AnonWorks, MaxWorks) :
         /\ DistinctIds(es)
         /\ files = [ f \in {"original_data.json", "experts.json"} |->
                     IF f = "experts.json" THEN es ELSE ws ]
    /\ AnonIdle
    /\ CombineIdle
    /\ RunIdle
    /\ env = [ v \in {"DWS_API_KEY", "DWS_API_ID"} |-> "secret" ]
    /\ should_anonymize = TRUE
    /\ x_pc = "idle"
    /\ x_error = <<>>
    /\ p_pc = "start"
    /\ data_dir = "dir"
    /\ experts_dir = "dir"
    /\ expert_files = NoFiles
    /\ fs0 = <<>>
    /\ GraphIdle

NextProcess ==
    \/ ProcessStart
    \/ AnonLoad
    \/ AnonIteration
    \/ AnonWrite
    \/ AnonymizeReturned
    \/ CombineLoad
    \/ CombineIndex
    \/ CombineAttach
    \/ SaveCombined
    \/ SaveIndividualExpertFiles

SpecProcess == InitProcess /\ [][NextProcess]_vars

----------------------------------------------------------------------------
\* DWSDataExporter(config) followed by run(), in any environment, on a disk
\* that may hold an earlier run, against any answers of the vendor API

MaxRunOutputs == 1   \* longest RecordList of the outputs endpoint in a whole run
MaxRunWorks == 1     \* longest RecordList of the works endpoint in a whole run

RunRequestOutputs == RequestOutputsUpTo(MaxRunOutputs)

RunRequestWorks == RequestWorksUpTo(MaxRunWorks)

\* os.environ: each required variable is unset, empty or set
EnvStates ==
    UNION { [ S -> {"", "secret"} ] : S \in SUBSET {"DWS_API_KEY", "DWS_API_ID"} }

OldExpert == [ Id |-> 7, Title |-> "Old Hand", works |-> <<>> ]

\* the paths data and data/experts before the program starts: nothing there,
\* the files of an earlier run, or a plain file in the way
DiskStates ==
    { [data_dir |-> "absent", experts_dir |-> "absent",
       files |-> NoFiles, expert_files |-> NoFiles],
      [data_dir |-> "dir", experts_dir |-> "dir",
       files |-> [ f \in {"experts.json"} |-> << OldExpert >> ],
       expert_files |-> [ f \in {"7_Old_Hand.json"} |-> OldExpert ]],
      [data_dir |-> "dir", experts_dir |-> "file",
       files |-> [ f \in {"experts.json"} |-> << OldExpert >> ],
       expert_files |-> NoFiles],
      [data_dir |-> "file", experts_dir |-> "absent",
       files |-> NoFiles, expert_files |-> NoFiles] }

InitExporter ==
    /\ env \in EnvStates
    /\ should_anonymize \in BOOLEAN
    /\ fs0 \in DiskStates
    /\ data_dir = fs0.data_dir
    /\ experts_dir = fs0.experts_dir
    /\ files = fs0.files
    /\ expert_files = fs0.expert_files
    /\ x_pc = "construct"
    /\ x_error = <<>>
    /\ p_pc = "start"
    /\ AnonIdle
    /\ CombineIdle
    /\ RunIdle
    /\ GraphIdle

NextExporter ==
    \/ Construct
    \/ EnsureDirectories
    \/ RunRequestOutputs
    \/ RunRequestWorks
    \/ CollectExpertIds
    \/ FetchProfile
    \/ ReturnExperts
    \/ SaveInitialData
    \/ ProcessStart
    \/ AnonLoad
    \/ AnonIteration
    \/ AnonWrite
    \/ AnonymizeReturned
    \/ CombineLoad
    \/ CombineIndex
    \/ CombineAttach
    \/ SaveCombined
    \/ SaveIndividualExpertFiles
    \/ RunReturn
    \/ RunExcept

SpecExporter == InitExporter /\ [][NextExporter]_vars

----------------------------------------------------------------------------
\* extract_information run on any directory

InitExtract ==
    /\ files = NoFiles
    /\ g_pc = "load"
    /\ documents = <<>>
    /\ g_i = 0
    /\ g_events = <<>>
    /\ AnonIdle
    /\ CombineIdle
    /\ RunIdle
    /\ ExportIdle

NextExtract == LoadDocuments \/ ExtractDocument \/ Sleep \/ ExtractReturn

SpecExtract == InitExtract /\ [][NextExtract]_vars

----------------------------------------------------------------------------
\* Properties of anonymize_data (checked under SpecAnon)

works_cleaned == files["works_cleaned.json"]
experts_cleaned == files["experts_cleaned.json"]

\* work n of the input carried the original Id of expert e
OrigLinked(n, e) ==
    /\ Has(a_orig.works[n], "ExpertId")
    /\ a_orig.works[n]["ExpertId"] = a_orig.experts[e]["Id"]

\* record r carries the synthetic contact values of identity id where it has the keys
ContactsOf(r, id) ==
    /\ Has(r, "Email") => r["Email"] = id.fake_email
    /\ Has(r, "Phone") => r["Phone"] = id.fake_phone
    /\ Has(r, "Mobile") => r["Mobile"] = id.fake_mobile

\* C1: once anonymize_data has finished, every work whose ExpertId was the
\* original Id of an expert carries that expert's new Id, its synthetic full
\* name as Owner and its synthetic contact values.
C1_LinkedRecordsShareIdentity ==
    a_pc = "done" =>
        \A e \in DOMAIN a_orig.experts, n \in DOMAIN a_orig.works :
            OrigLinked(n, e) =>
                /\ works_cleaned[n]["ExpertId"] = experts_cleaned[e]["Id"]
                /\ Has(works_cleaned[n], "Owner") =>
                       works_cleaned[n]["Owner"] = identities[e].fake_full_name
                /\ Has(experts_cleaned[e], "Title") =>
                       experts_cleaned[e]["Title"] = identities[e].fake_full_name
                /\ ContactsOf(works_cleaned[n], identities[e])

\* C3: once anonymize_data has finished, the ExpertId values of works_cleaned
\* are exactly the Id values of experts_cleaned.
C3_IdSetsEqual ==
    a_pc = "done" =>
        { w["ExpertId"] : w \in Range(works_cleaned) }
            = { x["Id"] : x \in Range(experts_cleaned) }

\* C3 (amended): once anonymize_data has finished, every work whose original
\* ExpertId was the original Id of some expert carries an ExpertId that is
\* the Id of a record of experts_cleaned.
C3_LinkedWorksPointAtExperts ==
    a_pc = "done" =>
        \A n \in DOMAIN a_orig.works :
            (\E e \in DOMAIN a_orig.experts : OrigLinked(n, e)) =>
                works_cleaned[n]["ExpertId"] \in { x["Id"] : x \in Range(experts_cleaned) }

\* a finished run with a linked work, an expert nobody links to and a work
\* that links to no expert
C3_Witness ==
    /\ a_pc = "done"
    /\ \E n \in DOMAIN a_orig.works, e \in DOMAIN a_orig.experts : OrigLinked(n, e)
    /\ \E e \in DOMAIN a_orig.experts : \A n \in DOMAIN a_orig.works : ~OrigLinked(n, e)
    /\ \E n \in DOMAIN a_orig.works : \A e \in DOMAIN a_orig.experts : ~OrigLinked(n, e)

\* C4: once anonymize_data has finished, no record of either output file has
\* a key of remove_list.
C4_NoRemovedKeyLeft ==
    a_pc = "done" =>
        \A r \in Range(works_cleaned) \cup Range(experts_cleaned) :
            DOMAIN r \cap remove_list = {}

\* C5: the synthetic ids drawn in one run are pairwise distinct, and they are
\* the Ids of the expert records written.
C5_SyntheticIdsDistinct ==
    /\ \A i, j \in DOMAIN identities :
           i # j => identities[i].fake_id # identities[j].fake_id
    /\ a_pc = "done" =>
           /\ Len(experts_cleaned) = Len(a_orig.experts)
           /\ \A i \in DOMAIN experts_cleaned :
                  experts_cleaned[i]["Id"] = identities[i].fake_id
           /\ \A i, j \in DOMAIN experts_cleaned :
                  i # j => experts_cleaned[i]["Id"] # experts_cleaned[j]["Id"]

\* a finished run over at least two experts, one of which had an original Id
\* that lies in the synthetic range
C5_Witness ==
    /\ a_pc = "done"
    /\ Len(a_orig.experts) >= 2
    /\ \E i \in DOMAIN a_orig.experts : a_orig.experts[i]["Id"] \in FakeIds

\* the keys anonymize_data may change or remove on an expert record and on a
\* work record
ExpertTouched ==
    remove_list \cup { "Title", "FirstName", "LastName", "Email", "Phone", "Mobile", "Id" }

WorkTouched ==
    remove_list \cup { "Owner", "Email", "Phone", "Mobile", "ExpertId" }

\* record new has no key that old had not, and every key of old outside
\* touched is still there with its value
FrameKept(old, new, touched) ==
    /\ DOMAIN new \subseteq DOMAIN old
    /\ \A k \in DOMAIN old \ touched : k \in DOMAIN new /\ new[k] = old[k]

\* C11: once anonymize_data has finished, both output lists have the length
\* of their input list, and record by record no key was added and every key
\* outside remove_list and the name, contact and id keys of its kind of record
\* still has the value it had in the input.
C11_OnlyListedKeysTouched ==
    a_pc = "done" =>
        /\ Len(experts_cleaned) = Len(a_orig.experts)
        /\ Len(works_cleaned) = Len(a_orig.works)
        /\ \A e \in DOMAIN a_orig.experts :
               FrameKept(a_orig.experts[e], experts_cleaned[e], ExpertTouched)
        /\ \A n \in DOMAIN a_orig.works :
               FrameKept(a_orig.works[n], works_cleaned[n], WorkTouched)

\* a finished run in which an expert without contact keys was rewritten, a
\* work was rewritten and a work was passed over, each with a key outside the
\* lists
C11_Witness ==
    /\ a_pc = "done"
    /\ \E e \in DOMAIN a_orig.experts :
           /\ ~Has(a_orig.experts[e], "Email")
           /\ Has(a_orig.experts[e], "Department")
           /\ experts_cleaned[e] # a_orig.experts[e]
    /\ \E n \in DOMAIN a_orig.works :
           Has(a_orig.works[n], "Name") /\ works_cleaned[n] # a_orig.works[n]
    /\ \E n \in DOMAIN a_orig.works : works_cleaned[n] = a_orig.works[n]

\* C19: when the input has at least one expert and a work record without an
\* ExpertId key, anonymize_data does not raise, and once it has finished that
\* record is in works_cleaned as it was in the input.
C19_MissingExpertIdTolerated ==
    (/\ Len(a_orig.experts) >= 1
     /\ \E n \in DOMAIN a_orig.works : ~Has(a_orig.works[n], "ExpertId"))
    => /\ a_pc # "raised"
       /\ a_pc = "done" =>
              \A n \in DOMAIN a_orig.works :
                  ~Has(a_orig.works[n], "ExpertId") => works_cleaned[n] = a_orig.works[n]

----------------------------------------------------------------------------
\* Properties of combine_experts_with_works (checked under SpecCombine)

FilesPresent == {c_args.experts_file, c_args.works_file} \subseteq DOMAIN files

in_experts == files[c_args.experts_file]
in_works == files[c_args.works_file]

\* W.ExpertId == E.Id, both keys present
Linked(w, e) == Has(w, "ExpertId") /\ Has(e, "Id") /\ w["ExpertId"] = e["Id"]

RECURSIVE IsSubseq(_, _)
IsSubseq(s, t) ==
    IF s = <<>> THEN TRUE
    ELSE IF t = <<>> THEN FALSE
    ELSE IF Head(s) = Head(t) THEN IsSubseq(Tail(s), Tail(t))
    ELSE IsSubseq(s, Tail(t))

RECURSIVE TotalWorks(_)
TotalWorks(es) ==
    IF es = <<>> THEN 0 ELSE Len(Head(es)["works"]) + TotalWorks(Tail(es))

\* C2: after combine, for every expert E with an Id, the works W with
\* W.ExpertId == E.Id occur in E.works once per occurrence in the input and
\* in the input's order, and E.works is in the input's relative order.
C2_LinkedWorksAttachedInOrder ==
    c_pc = "done" =>
        \A j \in DOMAIN in_experts :
            Has(in_experts[j], "Id") =>
                /\ SelectSeq(c_experts[j]["works"], LAMBDA w : Linked(w, in_experts[j]))
                       = SelectSeq(in_works, LAMBDA w : Linked(w, in_experts[j]))
                /\ IsSubseq(c_experts[j]["works"], in_works)

\* C9: after combine, a work whose ExpertId is absent or is the Id of no
\* expert is in no expert's works; combine raises only when an input file is
\* missing; with pairwise distinct expert Ids the works lists together hold
\* at most as many records as the input works list.
C9_UnmatchedWorksDropped ==
    /\ c_pc = "raised" => ~FilesPresent
    /\ c_pc = "done" =>
        /\ \A w \in Range(in_works) :
               (\A e \in Range(in_experts) : ~Linked(w, e)) =>
                   \A j \in DOMAIN c_experts : w \notin Range(c_experts[j]["works"])
        /\ (\A i, j \in DOMAIN in_experts :
               (i # j /\ Has(in_experts[i], "Id") /\ Has(in_experts[j], "Id"))
                   => in_experts[i]["Id"] # in_experts[j]["Id"])
             => TotalWorks(c_experts) <= Len(in_works)

\* a finished combine whose input has a work without ExpertId, a work with
\* an ExpertId no expert has, an expert without Id, and an attached work
C9_Witness ==
    /\ c_pc = "done"
    /\ \E w \in Range(in_works) : ~Has(w, "ExpertId")
    /\ \E w \in Range(in_works) :
           /\ Has(w, "ExpertId") /\ Truthy(w["ExpertId"])
           /\ \A e \in Range(in_experts) : ~Linked(w, e)
    /\ \E e \in Range(in_experts) : ~Has(e, "Id")
    /\ TotalWorks(c_experts) > 0

\* C10: after combine, the result is the input experts in input order, each
\* with a works key added, and an expert whose Id is no work's ExpertId has
\* works == []; combine raises only when an input file is missing.
C10_EveryExpertKept ==
    /\ c_pc = "raised" => ~FilesPresent
    /\ c_pc = "done" =>
        /\ Len(c_experts) = Len(in_experts)
        /\ \A j \in DOMAIN c_experts :
               /\ Has(c_experts[j], "works")
               /\ DelKeys(c_experts[j], {"works"}) = in_experts[j]
               /\ (\A w \in Range(in_works) : ~Linked(w, in_experts[j]))
                      => c_experts[j]["works"] = <<>>

\* a finished combine over an expert with works followed by one without
C10_Witness ==
    /\ c_pc = "done"
    /\ \E i, j \in DOMAIN c_experts :
           /\ i < j
           /\ c_experts[i]["works"] # <<>>
           /\ Has(in_experts[j], "Id")
           /\ \A w \in Range(in_works) : ~Linked(w, in_experts[j])

----------------------------------------------------------------------------
\* Properties of the API client (checked under SpecRun)

GetExpertsReturned == r_pc \in {"save_initial", "raw_exported"}

\* the lookup answered with a JSON body whose RecordList is missing or empty
NoRecords(l) ==
    /\ l.response.kind = "ok"
    /\ Get(l.response.body, "RecordList", <<>>) = <<>>

\* the lookup answered with at least one record
SomeRecords(l) ==
    /\ l.response.kind = "ok"
    /\ Get(l.response.body, "RecordList", <<>>) # <<>>

FirstRecord(l) == l.response.body["RecordList"][1]

\* the list get_experts returned has an entry that came from lookup l
HasEntryOf(l) == \E k \in DOMAIN experts : sources[k] = l.id

\* C6: once a request of the run has failed, get_experts does not return (the
\* run raises instead of going on with an experts collection).
C6_FailedRequestAbortsRun ==
    failed => ~GetExpertsReturned

\* C7: when get_experts has returned, a lookup whose RecordList was missing or
\* empty returned None and left no entry, and every lookup that returned at
\* least one record has its first record in the list.
C7_EmptyLookupSkipped ==
    GetExpertsReturned =>
        \A l \in lookups :
            /\ NoRecords(l) => (l.returned = <<>> /\ ~HasEntryOf(l))
            /\ SomeRecords(l) =>
                   \E k \in DOMAIN experts :
                       sources[k] = l.id /\ experts[k] = FirstRecord(l)

\* C7 (amended): as C7, for the lookups whose first record is not an empty
\* object; a lookup whose first record is {} leaves no entry.
C7_EmptyLookupSkippedNonEmptyFirst ==
    GetExpertsReturned =>
        \A l \in lookups :
            /\ NoRecords(l) => (l.returned = <<>> /\ ~HasEntryOf(l))
            /\ (SomeRecords(l) /\ FirstRecord(l) # EmptyRecord) =>
                   \E k \in DOMAIN experts :
                       sources[k] = l.id /\ experts[k] = FirstRecord(l)
            /\ (SomeRecords(l) /\ FirstRecord(l) = EmptyRecord) => ~HasEntryOf(l)

\* get_experts has returned after a lookup without records and a lookup
\* with two different records
C7_Witness ==
    /\ GetExpertsReturned
    /\ \E l \in lookups : NoRecords(l)
    /\ \E l \in lookups :
           /\ SomeRecords(l)
           /\ Len(l.response.body["RecordList"]) = 2
           /\ FirstRecord(l) # EmptyRecord
           /\ l.response.body["RecordList"][2] # FirstRecord(l)

\* the non-None ExpertId values of the fetched records
FetchedIds ==
    { w["ExpertId"] : w \in { x \in Range(outputs_and_works) : Has(x, "ExpertId") } }
        \ {None}

Count(seq, v) == Cardinality({ k \in DOMAIN seq : seq[k] = v })

\* C8: get_expert_profile is never called twice with the same id and never
\* with None or an id no fetched record has; when get_experts has returned it
\* was called exactly once for each distinct non-None ExpertId.
C8_OneLookupPerDistinctId ==
    /\ \A k \in DOMAIN calls : calls[k] \in FetchedIds /\ Count(calls, calls[k]) = 1
    /\ GetExpertsReturned => \A id \in FetchedIds : Count(calls, id) = 1

\* get_experts has returned for a list where one id occurs twice, next to a
\* record with ExpertId None and a record without ExpertId
C8_Witness ==
    /\ GetExpertsReturned
    /\ \E i, j \in DOMAIN outputs_and_works :
           /\ i # j
           /\ Has(outputs_and_works[i], "ExpertId")
           /\ Has(outputs_and_works[j], "ExpertId")
           /\ outputs_and_works[i]["ExpertId"] = outputs_and_works[j]["ExpertId"]
           /\ outputs_and_works[i]["ExpertId"] # None
    /\ \E w \in Range(outputs_and_works) :
           ~Has(w, "ExpertId") \/ w["ExpertId"] = None
    /\ calls # <<>>

----------------------------------------------------------------------------
\* Properties of DWSDataExporter (checked under SpecExporter)

\* the required variables that are unset or empty
UnsetOrEmpty ==
    { v \in {"DWS_API_KEY", "DWS_API_ID"} : v \notin DOMAIN env \/ env[v] = "" }

\* the paths and files are as they were before the program started
DiskUntouched ==
    /\ data_dir = fs0.data_dir
    /\ experts_dir = fs0.experts_dir
    /\ files = fs0.files
    /\ expert_files = fs0.expert_files

\* C12: when DWS_API_KEY or DWS_API_ID is unset or empty, the constructor
\* ends in the ValueError, the error names exactly the unset or empty
\* variables, no request was sent and the disk is as it was.
C12_MissingEnvRaisesFirst ==
    (UnsetOrEmpty # {} /\ x_pc # "construct") =>
        /\ x_pc = "init_raised"
        /\ Range(x_error) = UnsetOrEmpty
        /\ r_pc = "idle"
        /\ calls = <<>>
        /\ DiskUntouched

\* the constructor has raised for an empty DWS_API_KEY and an unset
\* DWS_API_ID, on a disk that holds an earlier run
C12_Witness ==
    /\ x_pc = "init_raised"
    /\ "DWS_API_KEY" \in DOMAIN env
    /\ env["DWS_API_KEY"] = ""
    /\ "DWS_API_ID" \notin DOMAIN env
    /\ fs0.expert_files # NoFiles

\* ensure_directories has just returned
DirectoriesEnsured == x_pc = "running" /\ r_pc = "request_outputs"

\* C14: when ensure_directories has returned, data and data/experts are
\* directories, data/experts holds no file and the files directly in data are
\* the ones that were there before.
C14_ExpertsDirEmptied ==
    DirectoriesEnsured =>
        /\ data_dir = "dir"
        /\ experts_dir = "dir"
        /\ expert_files = NoFiles
        /\ files = fs0.files

\* ensure_directories has returned on a disk where data/experts held a file
\* and data held one
C14_Witness ==
    /\ DirectoriesEnsured
    /\ fs0.expert_files # NoFiles
    /\ fs0.files # NoFiles

\* the combined collection as it was saved
experts_with_works == files["experts_with_works.json"]

\* <Id>_<Title with every space replaced by '_'>.json, 'untitled' for an
\* empty or missing Title
NamedFile(expert) ==
    PyStr(expert["Id"]) \o "_"
        \o (IF ~Has(expert, "Title") \/ expert["Title"] = "" THEN "untitled"
            ELSE ReplaceSpaces(expert["Title"]))
        \o ".json"

C16_RawWorksAttached ==
    (x_pc = "done" /\ ~should_anonymize) =>
        \A n \in DOMAIN outputs_and_works, j \in DOMAIN experts :
            Linked(outputs_and_works[n], experts[j]) =>
                \E k \in DOMAIN experts_with_works[j]["works"] :
                    experts_with_works[j]["works"][k] = outputs_and_works[n]

CleanedFiles ==
    [experts_file |-> "experts_cleaned.json", works_file |-> "works_cleaned.json"]

InitialFiles == { "outputs.json", "works.json", "original_data.json", "experts.json" }

\* a step of run has raised
StepRaised == r_pc = "raised" \/ a_pc = "raised" \/ c_pc = "raised"

\* C17: in a run with SHOULD_ANONYMIZE = True every step starts only when the
\* step before it has finished: the requests after ensure_directories, the
\* profile lookups after both list requests, save_initial_data after the
\* lookups, anonymize_data after the initial files are written and only from
\* its idle state, combine after anonymize_data and on the two cleaned files,
\* experts_with_works.json after combine, the per-expert files after that
\* file, and the return after the per-expert files. Once a step has raised,
\* the only thing that happens is that run raises, and nothing happens after.
C17_StepsInOrder ==
    [][ should_anonymize =>
        /\ (r_pc' = "request_outputs" /\ r_pc # "request_outputs") =>
               (x_pc = "ensure_directories" /\ experts_dir' = "dir" /\ expert_files' = NoFiles)
        /\ (r_pc' = "request_works" /\ r_pc # "request_works") => r_pc = "request_outputs"
        /\ (r_pc' = "get_experts" /\ r_pc # "get_experts") => r_pc = "request_works"
        /\ (r_pc' = "profiles" /\ r_pc # "profiles") => r_pc = "get_experts"
        /\ (r_pc' = "save_initial" /\ r_pc # "save_initial") =>
               (r_pc = "profiles" /\ expert_ids = {})
        /\ (a_pc' # a_pc /\ a_pc' = "load") =>
               (a_pc = "idle" /\ r_pc = "raw_exported" /\ InitialFiles \subseteq DOMAIN files)
        /\ (c_pc' # c_pc /\ c_pc' = "load") =>
               (c_pc = "idle" /\ a_pc = "done" /\ c_args' = CleanedFiles)
        /\ ("experts_with_works.json" \in DOMAIN files' \ DOMAIN files) => c_pc = "done"
        /\ (expert_files' # expert_files /\ x_pc = "running") =>
               ("experts_with_works.json" \in DOMAIN files /\ p_pc' = "done")
        /\ (x_pc' = "done" /\ x_pc # "done") =>
               (p_pc = "done" /\ r_pc = "raw_exported" /\ a_pc = "done" /\ c_pc = "done")
        /\ StepRaised =>
               (x_pc = "running" /\ x_pc' = "raised"
                /\ UNCHANGED <<files, expert_files, anon_vars, combine_vars, run_vars, p_pc>>)
        /\ x_pc # "raised"
      ]_vars

\* an anonymizing run has returned with an expert that has a work
C17_Witness ==
    /\ x_pc = "done"
    /\ should_anonymize
    /\ a_pc = "done"
    /\ \E j \in DOMAIN experts_with_works : experts_with_works[j]["works"] # <<>>

----------------------------------------------------------------------------
\* Properties of process_and_save_final_data (checked under SpecProcess)

\* the cleaned records of the works that carried the original Id of expert j,
\* in input order
LinkedWorksOf(j) ==
    LET idx == SelectSeq([ n \in 1..Len(a_orig.works) |-> n ], LAMBDA n : OrigLinked(n, j))
    IN [ k \in 1..Len(idx) |-> works_cleaned[idx[k]] ]

\* C15: when combine has run on the two files anonymize_data wrote, the works
\* of expert j are exactly the works whose ExpertId in the raw input was the
\* Id of expert j in the raw input.
C15_LinksPreserved ==
    (p_pc = "combine" /\ c_pc = "done") =>
        \A j \in DOMAIN c_experts : c_experts[j]["works"] = LinkedWorksOf(j)

----------------------------------------------------------------------------
\* Properties of extract_information (checked under SpecExtract)

Extracts == SelectSeq(g_events, LAMBDA ev : ev.op = "extract")

Sleeps == SelectSeq(g_events, LAMBDA ev : ev.op = "sleep")

\* the calls so far took the documents in load order, one call each
InLoadOrder ==
    /\ Len(Extracts) <= Len(documents)
    /\ \A k \in DOMAIN Extracts : Extracts[k].document = documents[k]

\* every sleep so far has an extract call right before it, extract calls are
\* separated by a sleep
Alternating ==
    \A k \in DOMAIN g_events :
        IF g_events[k].op = "sleep"
        THEN k > 1 /\ g_events[k-1].op = "extract"
        ELSE k > 1 => g_events[k-1].op = "sleep"

\* C18: extract is called on the documents in load order, one call per
\* document, with exactly one sleep between two consecutive calls; when
\* extract_information has returned from N >= 1 documents there were N calls
\* and N - 1 sleeps and the last thing was a call; when it has raised, the
\* last thing was the call that raised; and after it has returned or raised
\* nothing more is called.
C18_ExtractSleepAlternate ==
    /\ [](/\ InLoadOrder
          /\ Alternating
          /\ (g_pc = "done" /\ Len(documents) >= 1) =>
                 /\ Len(Extracts) = Len(documents)
                 /\ Len(Sleeps) = Len(documents) - 1
                 /\ g_events[Len(g_events)].op = "extract"
          /\ (g_pc = "raised" /\ g_events # <<>>) =>
                 g_events[Len(g_events)].op = "extract")
    /\ [][g_pc \notin {"done", "raised"}]_vars

\* extract_information has returned after three documents, two of them equal
C18_Witness ==
    /\ g_pc = "done"
    /\ Len(documents) = 3
    /\ documents[1] = documents[3]
    /\ documents[1] # documents[2]
    /\ Len(Sleeps) = 2

====
